---- MODULE Spec2Model ----
(***************************************************************************)
(* segment_tree<T> of src/segtree.cpp, with T = int (build takes a          *)
(* std::vector<int>, so int is the element type the class compiles for).   *)
(* Sizes and indices stay far below the range of int and size_t, the       *)
(* elements far below the range of int.                                    *)
(*                                                                         *)
(* Spec      the public operations as atomic steps (constructors,          *)
(*           update_point, get), the recursions as recursive operators.    *)
(* SpecStep  one caller, the recursions run statement by statement on an   *)
(*           explicit call stack; FairStep adds that a running call goes   *)
(*           on running.                                                   *)
(* SpecConc  two callers, each running one update_point on the same tree,  *)
(*           every slot read and every slot write a step of its own.       *)
(***************************************************************************)
EXTENDS Integers, Sequences, FiniteSets, TLC

\* ------------------------------------------------------------------ bounds

\* largest logical size n a constructor is given
MaxN == 3
\* element values are 0..MaxVal
MaxVal == 2

Values == 0 .. MaxVal
Sizes == 0 .. MaxN
\* size_t arguments of update_point and get: valid ones and, for every size,
\* at least one past the end
Indices == 0 .. MaxN

\* the same for the statement-level specifications
StepMaxN == 6
\* two different non-zero digits: enough to tell positions and operand
\* order apart under cat
StepValues == {1, 2}
StepSizes == 0 .. StepMaxN
StepIndices == 0 .. StepMaxN
StepCombiners == {"sum", "cat"}

\* ---------------------------------------------------------------- elements

\* T(0), the value every slot is assigned at construction and the value the
\* public get returns for a range it rejects
Zero == 0

\* number of decimal digits of b, none for 0
RECURSIVE Digits(_)
Digits(b) == IF b <= 0 THEN 0 ELSE 1 + Digits(b \div 10)

RECURSIVE Pow10(_)
Pow10(k) == IF k = 0 THEN 1 ELSE 10 * Pow10(k - 1)

\* the std::function<T(T, T)> values a caller supplies:
\*   sum   a + b             (the default of the one-argument constructors)
\*   prod  a * b             (the demo's second tree)
\*   cat   decimal concatenation, 0 the empty string: associative, with
\*         identity 0, not commutative
\*   succ  a + b + 1: associative and commutative, succ(0, 0) # 0
\*   sub   a - b: not associative
Combiners == {"sum", "prod", "cat", "succ", "sub"}

Combine(f, a, b) ==
    CASE f = "sum" -> a + b
      [] f = "prod" -> a * b
      [] f = "cat" -> a * Pow10(Digits(b)) + b
      [] f = "succ" -> a + b + 1
      [] f = "sub" -> a - b

\* ------------------------------------------------------------------- state

VARIABLES
    st,     \* "absent" before construction, "ready" after
    n,      \* size_t n
    tree,   \* std::vector<T> tree, slots 0 .. 4n-1
    foo,    \* std::function<T(T, T)> foo
    ctor,   \* which constructor made the tree: "size" or "seq"
    vals,   \* the constructor's vec, then (ghost) the logical sequence: vec
            \* with the values of the update_point calls with point < n
    nupd,   \* ghost of Spec: whether an update_point with point < n has run
    op,     \* the last public call, its arguments and its result
    stack,  \* per caller, the frames of its running recursion, innermost first
    call,   \* per caller, the public call it is in and the call's arguments
    res,    \* per caller, the value the last returned get frame returned
            \* (T(0) when the caller enters a public call)
    acc     \* the slots the last statement read or wrote

vars == <<st, n, tree, foo, ctor, vals, nupd, op, stack, call, res, acc>>

Procs == {1, 2}

Idle == [kind |-> "none", x |-> 0, y |-> 0, ph |-> "idle"]

stepvars == <<stack, call, res, acc>>

NoOp == [kind |-> "none", a |-> 0, b |-> 0, ret |-> 0]

\* assign with the factor 4 left out
assign_n(k) == [i \in 0 .. k - 1 |-> Zero]

\* tree.assign(4 * n, T(0))
assign(k) == [i \in 0 .. 4 * k - 1 |-> Zero]

\* -------------------------------------------------------------- recursions

RECURSIVE build(_, _, _, _, _, _)
build(t, f, vec, v, l, r) ==
    IF l = r
    THEN [t EXCEPT ![v] = vec[l]]
    ELSE LET mid == (l + r) \div 2
             t1 == build(t, f, vec, 2 * v, l, mid)
             t2 == build(t1, f, vec, 2 * v + 1, mid + 1, r)
         IN [t2 EXCEPT ![v] = Combine(f, t2[2 * v], t2[2 * v + 1])]

\* update recombining a node before, not after, the call on its half
RECURSIVE update_preorder(_, _, _, _, _, _, _)
update_preorder(t, f, idx, val, v, l, r) ==
    IF l = r
    THEN [t EXCEPT ![v] = val]
    ELSE LET mid == (l + r) \div 2
             t0 == [t EXCEPT ![v] = Combine(f, t[2 * v], t[2 * v + 1])]
         IN IF idx <= mid
            THEN update_preorder(t0, f, idx, val, 2 * v, l, mid)
            ELSE update_preorder(t0, f, idx, val, 2 * v + 1, mid + 1, r)

\* update sending idx = mid to the right half
RECURSIVE update_lt(_, _, _, _, _, _, _)
update_lt(t, f, idx, val, v, l, r) ==
    IF l = r
    THEN [t EXCEPT ![v] = val]
    ELSE LET mid == (l + r) \div 2
             t1 == IF idx < mid
                   THEN update_lt(t, f, idx, val, 2 * v, l, mid)
                   ELSE update_lt(t, f, idx, val, 2 * v + 1, mid + 1, r)
         IN [t1 EXCEPT ![v] = Combine(f, t1[2 * v], t1[2 * v + 1])]

RECURSIVE update(_, _, _, _, _, _, _)
update(t, f, idx, val, v, l, r) ==
    IF l = r
    THEN [t EXCEPT ![v] = val]
    ELSE LET mid == (l + r) \div 2
             t1 == IF idx <= mid
                   THEN update(t, f, idx, val, 2 * v, l, mid)
                   ELSE update(t, f, idx, val, 2 * v + 1, mid + 1, r)
         IN [t1 EXCEPT ![v] = Combine(f, t1[2 * v], t1[2 * v + 1])]

\* get combining the right half's result first
RECURSIVE get_swapped(_, _, _, _, _, _, _)
get_swapped(t, f, left, right, v, l, r) ==
    IF left <= l /\ r <= right
    THEN t[v]
    ELSE LET mid == (l + r) \div 2
         IN IF right <= mid
            THEN get_swapped(t, f, left, right, 2 * v, l, mid)
            ELSE IF left > mid
                 THEN get_swapped(t, f, left, right, 2 * v + 1, mid + 1, r)
                 ELSE Combine(f,
                        get_swapped(t, f, left, right, 2 * v + 1, mid + 1, r),
                        get_swapped(t, f, left, right, 2 * v, l, mid))

RECURSIVE get(_, _, _, _, _, _, _)
get(t, f, left, right, v, l, r) ==
    IF left <= l /\ r <= right
    THEN t[v]
    ELSE LET mid == (l + r) \div 2
         IN IF right <= mid
            THEN get(t, f, left, right, 2 * v, l, mid)
            ELSE IF left > mid
                 THEN get(t, f, left, right, 2 * v + 1, mid + 1, r)
                 ELSE Combine(f,
                              get(t, f, left, right, 2 * v, l, mid),
                              get(t, f, left, right, 2 * v + 1, mid + 1, r))

\* update_point letting point = n through on a non-empty tree
update_point_le(t, k, f, point, new_val) ==
    IF point <= k /\ k > 0
    THEN update(t, f, point, new_val, 1, 0, k - 1)
    ELSE t

\* the storage after update_point(point, new_val)
update_point(t, k, f, point, new_val) ==
    IF point < k THEN update(t, f, point, new_val, 1, 0, k - 1) ELSE t

\* the public get returning 1, the identity of the product, for a range it
\* rejects
get_range_one(t, k, f, left, right) ==
    IF left <= right /\ right < k
    THEN get(t, f, left, right, 1, 0, k - 1)
    ELSE 1

\* the value of the public get(left, right)
get_range(t, k, f, left, right) ==
    IF left <= right /\ right < k
    THEN get(t, f, left, right, 1, 0, k - 1)
    ELSE Zero

\* the storage after the constructors from a vector
from_vector(vec, k, f) ==
    IF k # 0 THEN build(assign(k), f, vec, 1, 0, k - 1) ELSE assign(k)

\* ------------------------------------------------------------- operations

Init ==
    /\ st = "absent"
    /\ n = 0
    /\ tree = assign(0)
    /\ foo = "sum"
    /\ ctor = "none"
    /\ vals = [i \in {} |-> Zero]
    /\ nupd = FALSE
    /\ op = NoOp
    /\ stack = [p \in Procs |-> <<>>]
    /\ call = [p \in Procs |-> Idle]
    /\ res = [p \in Procs |-> Zero]
    /\ acc = {}

\* segment_tree(), the default constructor of the second copy of the class
NewEmpty ==
    /\ st = "absent"
    /\ st' = "ready"
    /\ n' = 0
    /\ tree' = assign(0)
    /\ foo' = "sum"
    /\ ctor' = "size"
    /\ vals' = [i \in {} |-> Zero]
    /\ op' = NoOp
    /\ UNCHANGED <<nupd, stepvars>>

\* segment_tree(int n, foo)
NewSized ==
    \E k \in Sizes, f \in Combiners :
        /\ st = "absent"
        /\ st' = "ready"
        /\ n' = k
        /\ foo' = f
        /\ tree' = assign(k)
        /\ ctor' = "size"
        /\ vals' = [i \in 0 .. k - 1 |-> Zero]
        /\ op' = NoOp
        /\ UNCHANGED <<nupd, stepvars>>

\* segment_tree(int n)
NewSizedDefault ==
    \E k \in Sizes :
        /\ st = "absent"
        /\ st' = "ready"
        /\ n' = k
        /\ tree' = assign(k)
        /\ foo' = "sum"
        /\ ctor' = "size"
        /\ vals' = [i \in 0 .. k - 1 |-> Zero]
        /\ op' = NoOp
        /\ UNCHANGED <<nupd, stepvars>>

\* segment_tree(const std::vector<T>& vec, foo)
FromSequence ==
    \E k \in Sizes, f \in Combiners :
        \E vec \in [0 .. k - 1 -> Values] :
            /\ st = "absent"
            /\ st' = "ready"
            /\ foo' = f
            /\ n' = k
            /\ tree' = from_vector(vec, k, f)
            /\ ctor' = "seq"
            /\ vals' = vec
            /\ op' = NoOp
            /\ UNCHANGED <<nupd, stepvars>>

\* segment_tree(const std::vector<T>& vec)
FromSequenceDefault ==
    \E k \in Sizes :
        \E vec \in [0 .. k - 1 -> Values] :
            /\ st = "absent"
            /\ st' = "ready"
            /\ n' = k
            /\ tree' = from_vector(vec, k, "sum")
            /\ foo' = "sum"
            /\ ctor' = "seq"
            /\ vals' = vec
            /\ op' = NoOp
            /\ UNCHANGED <<nupd, stepvars>>

\* void update_point(size_t point, T new_val)
UpdatePoint ==
    \E point \in Indices, new_val \in Values :
        /\ st = "ready"
        /\ tree' = update_point(tree, n, foo, point, new_val)
        /\ vals' = IF point < n THEN [vals EXCEPT ![point] = new_val] ELSE vals
        /\ nupd' = (nupd \/ point < n)
        /\ op' = [kind |-> "update", a |-> point, b |-> new_val, ret |-> 0]
        /\ UNCHANGED <<st, n, foo, ctor, stepvars>>

\* get keeping its result in slot 0
QueryStores ==
    \E left \in Indices, right \in Indices :
        /\ st = "ready"
        /\ op' = [kind |-> "get", a |-> left, b |-> right,
                  ret |-> get_range(tree, n, foo, left, right)]
        /\ tree' = [i \in DOMAIN tree |->
                       IF i = 0
                       THEN get_range(tree, n, foo, left, right)
                       ELSE tree[i]]
        /\ UNCHANGED <<st, n, foo, ctor, vals, nupd, stepvars>>

\* T get(size_t left, size_t right)
Query ==
    \E left \in Indices, right \in Indices :
        /\ st = "ready"
        /\ op' = [kind |-> "get", a |-> left, b |-> right,
                  ret |-> get_range(tree, n, foo, left, right)]
        /\ UNCHANGED <<st, n, tree, foo, ctor, vals, nupd, stepvars>>

Next ==
    \/ NewEmpty
    \/ NewSized
    \/ NewSizedDefault
    \/ FromSequence
    \/ FromSequenceDefault
    \/ UpdatePoint
    \/ Query

Spec == Init /\ [][Next]_vars

\* ------------------------------------------------ the recursions, stepwise

\* a call build/update/get(..., v, l, r) that has not run a statement yet
Frame(fn, v, l, r) ==
    [fn |-> fn, v |-> v, l |-> l, r |-> r, pc |-> "enter",
     a |-> Zero, b |-> Zero, pend |-> {}]

Top(p) == Head(stack[p])
Running(p) == stack[p] # <<>>

\* the values a read of tree[v] can give: reading past the storage is
\* undefined, any value
SlotRead(v) == IF v \in DOMAIN tree THEN {tree[v]} ELSE StepValues

\* the storage after tree[v] = x: a write past the storage is undefined, and
\* lands outside the vector
SlotWrite(v, x) == IF v \in DOMAIN tree THEN [tree EXCEPT ![v] = x] ELSE tree

\* the innermost frame returns; the return of the outermost one ends the
\* public call, and a constructor's tree is ready
Return(p) ==
    /\ stack' = [stack EXCEPT ![p] = Tail(@)]
    /\ call' = IF Len(stack[p]) = 1
               THEN [call EXCEPT ![p].ph = "done"]
               ELSE call
    /\ st' = IF Len(stack[p]) = 1 /\ call[p].kind = "build"
             THEN "ready"
             ELSE st

\* the innermost frame, now at caller, calls callee
Call(p, caller, callee) ==
    /\ stack' = [stack EXCEPT ![p] = <<callee, caller>> \o Tail(@)]
    /\ UNCHANGED <<call, st>>

\* build: the leaf assignment, or the call of the left half
BuildEnter(p) ==
    /\ Running(p) /\ Top(p).fn = "build" /\ Top(p).pc = "enter"
    /\ LET f == Top(p)
           mid == (f.l + f.r) \div 2
       IN IF f.l = f.r
          THEN /\ tree' = SlotWrite(f.v, vals[f.l])
               /\ acc' = {f.v}
               /\ Return(p)
          ELSE /\ Call(p, [f EXCEPT !.pc = "left"],
                       Frame("build", 2 * f.v, f.l, mid))
               /\ acc' = {}
               /\ UNCHANGED tree
    /\ UNCHANGED <<n, foo, ctor, vals, nupd, op, res>>

\* build: the call of the right half
BuildRight(p) ==
    /\ Running(p) /\ Top(p).fn = "build" /\ Top(p).pc = "left"
    /\ LET f == Top(p)
           mid == (f.l + f.r) \div 2
       IN Call(p, [f EXCEPT !.pc = "right"],
               Frame("build", 2 * f.v + 1, mid + 1, f.r))
    /\ acc' = {}
    /\ UNCHANGED <<n, tree, foo, ctor, vals, nupd, op, res>>

\* build: tree[v] = foo(tree[2 * v], tree[2 * v + 1])
BuildCombine(p) ==
    /\ Running(p) /\ Top(p).fn = "build" /\ Top(p).pc = "right"
    /\ LET f == Top(p)
       IN \E a \in SlotRead(2 * f.v), b \in SlotRead(2 * f.v + 1) :
              /\ tree' = SlotWrite(f.v, Combine(foo, a, b))
              /\ acc' = {f.v, 2 * f.v, 2 * f.v + 1}
    /\ Return(p)
    /\ UNCHANGED <<n, foo, ctor, vals, nupd, op, res>>

\* update: the leaf assignment, or the call of the half that holds idx
UpdateEnter(p) ==
    /\ Running(p) /\ Top(p).fn = "update" /\ Top(p).pc = "enter"
    /\ LET f == Top(p)
           mid == (f.l + f.r) \div 2
       IN IF f.l = f.r
          THEN /\ tree' = SlotWrite(f.v, call[p].y)
               /\ acc' = {f.v}
               /\ Return(p)
          ELSE /\ Call(p, [f EXCEPT !.pc = "down", !.pend = {"L", "R"}],
                       IF call[p].x <= mid
                       THEN Frame("update", 2 * f.v, f.l, mid)
                       ELSE Frame("update", 2 * f.v + 1, mid + 1, f.r))
               /\ acc' = {}
               /\ UNCHANGED tree
    /\ UNCHANGED <<n, foo, ctor, vals, nupd, op, res>>

\* update: one of the two reads of foo(tree[2 * v], tree[2 * v + 1]), whose
\* order the language leaves open
UpdateRead(p) ==
    /\ Running(p) /\ Top(p).fn = "update" /\ Top(p).pc = "down"
    /\ LET f == Top(p)
       IN \/ /\ "L" \in f.pend
             /\ \E x \in SlotRead(2 * f.v) :
                    stack' = [stack EXCEPT ![p] =
                        <<[f EXCEPT !.a = x, !.pend = @ \ {"L"}]>> \o Tail(@)]
             /\ acc' = {2 * f.v}
          \/ /\ "R" \in f.pend
             /\ \E x \in SlotRead(2 * f.v + 1) :
                    stack' = [stack EXCEPT ![p] =
                        <<[f EXCEPT !.b = x, !.pend = @ \ {"R"}]>> \o Tail(@)]
             /\ acc' = {2 * f.v + 1}
    /\ UNCHANGED <<st, n, tree, foo, ctor, vals, nupd, op, call, res>>

\* update assigning foo with the operands swapped
UpdateWriteSwapped(p) ==
    /\ Running(p) /\ Top(p).fn = "update" /\ Top(p).pc = "down"
    /\ Top(p).pend = {}
    /\ LET f == Top(p)
       IN /\ tree' = SlotWrite(f.v, Combine(foo, f.b, f.a))
          /\ acc' = {f.v}
    /\ Return(p)
    /\ UNCHANGED <<n, foo, ctor, vals, nupd, op, res>>

\* update: the assignment tree[v] = foo(..), both operands read
UpdateWrite(p) ==
    /\ Running(p) /\ Top(p).fn = "update" /\ Top(p).pc = "down"
    /\ Top(p).pend = {}
    /\ LET f == Top(p)
       IN /\ tree' = SlotWrite(f.v, Combine(foo, f.a, f.b))
          /\ acc' = {f.v}
    /\ Return(p)
    /\ UNCHANGED <<n, foo, ctor, vals, nupd, op, res>>

\* get calling the right half from mid, not mid + 1
GetChildMid(f, c) ==
    LET mid == (f.l + f.r) \div 2
    IN IF c = "L"
       THEN Frame("get", 2 * f.v, f.l, mid)
       ELSE Frame("get", 2 * f.v + 1, mid, f.r)

\* the frame of get's call on the left ("L") or the right ("R") half
GetChild(f, c) ==
    LET mid == (f.l + f.r) \div 2
    IN IF c = "L"
       THEN Frame("get", 2 * f.v, f.l, mid)
       ELSE Frame("get", 2 * f.v + 1, mid + 1, f.r)

\* get: return tree[v] for a covered node, or the call of one half, or the
\* first of the two calls in foo(get(..), get(..)), whose order the language
\* leaves open
GetEnter(p) ==
    /\ Running(p) /\ Top(p).fn = "get" /\ Top(p).pc = "enter"
    /\ LET f == Top(p)
           left == call[p].x
           right == call[p].y
           mid == (f.l + f.r) \div 2
       IN IF left <= f.l /\ f.r <= right
          THEN /\ \E x \in SlotRead(f.v) : res' = [res EXCEPT ![p] = x]
               /\ acc' = {f.v}
               /\ Return(p)
          ELSE /\ IF right <= mid
                  THEN Call(p, [f EXCEPT !.pc = "tail"], GetChild(f, "L"))
                  ELSE IF left > mid
                       THEN Call(p, [f EXCEPT !.pc = "tail"], GetChild(f, "R"))
                       ELSE \E c \in {"L", "R"} :
                                Call(p, [f EXCEPT !.pc = c,
                                                  !.pend = {"L", "R"} \ {c}],
                                     GetChild(f, c))
               /\ acc' = {}
               /\ UNCHANGED res
    /\ UNCHANGED <<n, tree, foo, ctor, vals, nupd, op>>

\* get: return get(..) of the one half
GetTail(p) ==
    /\ Running(p) /\ Top(p).fn = "get" /\ Top(p).pc = "tail"
    /\ Return(p)
    /\ acc' = {}
    /\ UNCHANGED <<n, tree, foo, ctor, vals, nupd, op, res>>

\* the frame f holding the value x its call on half c returned
Operand(f, c, x) == IF c = "L" THEN [f EXCEPT !.a = x] ELSE [f EXCEPT !.b = x]

\* get: the first operand of foo(get(..), get(..)) is there, the call for
\* the other one
GetSecond(p) ==
    /\ Running(p) /\ Top(p).fn = "get" /\ Top(p).pc \in {"L", "R"}
    /\ Top(p).pend # {}
    /\ LET f == Operand(Top(p), Top(p).pc, res[p])
       IN \E c \in f.pend :
              Call(p, [f EXCEPT !.pc = c, !.pend = {}], GetChild(f, c))
    /\ acc' = {}
    /\ UNCHANGED <<n, tree, foo, ctor, vals, nupd, op, res>>

\* get: both operands are there, return foo(left result, right result)
GetCombine(p) ==
    /\ Running(p) /\ Top(p).fn = "get" /\ Top(p).pc \in {"L", "R"}
    /\ Top(p).pend = {}
    /\ LET f == Operand(Top(p), Top(p).pc, res[p])
       IN res' = [res EXCEPT ![p] = Combine(foo, f.a, f.b)]
    /\ Return(p)
    /\ acc' = {}
    /\ UNCHANGED <<n, tree, foo, ctor, vals, nupd, op>>

\* update_point(point, new_val) is entered by caller p
begin_update_point(p, point, new_val) ==
    /\ IF point < n
       THEN /\ stack' = [stack EXCEPT ![p] = <<Frame("update", 1, 0, n - 1)>>]
            /\ call' = [call EXCEPT ![p] = [kind |-> "update", x |-> point,
                                            y |-> new_val, ph |-> "run"]]
            /\ vals' = [vals EXCEPT ![point] = new_val]
       ELSE /\ call' = [call EXCEPT ![p] = [kind |-> "update", x |-> point,
                                            y |-> new_val, ph |-> "done"]]
            /\ UNCHANGED <<stack, vals>>
    /\ res' = [res EXCEPT ![p] = Zero]
    /\ acc' = {}
    /\ UNCHANGED <<st, n, tree, foo, ctor, nupd, op>>

\* get(left, right) is entered by caller p
begin_get(p, left, right) ==
    /\ IF left <= right /\ right < n
       THEN /\ stack' = [stack EXCEPT ![p] = <<Frame("get", 1, 0, n - 1)>>]
            /\ call' = [call EXCEPT ![p] = [kind |-> "get", x |-> left,
                                            y |-> right, ph |-> "run"]]
            /\ res' = [res EXCEPT ![p] = Zero]
       ELSE /\ call' = [call EXCEPT ![p] = [kind |-> "get", x |-> left,
                                            y |-> right, ph |-> "done"]]
            /\ res' = [res EXCEPT ![p] = Zero]
            /\ UNCHANGED stack
    /\ acc' = {}
    /\ UNCHANGED <<st, n, tree, foo, ctor, vals, nupd, op>>

\* -------------------------------------------------- SpecStep: one caller

\* segment_tree(const std::vector<T>& vec, foo) is entered
StepFromSequence ==
    \E k \in StepSizes, f \in StepCombiners :
        \E vec \in [0 .. k - 1 -> StepValues] :
            /\ st = "absent"
            /\ foo' = f
            /\ n' = k
            /\ tree' = assign(k)
            /\ ctor' = "seq"
            /\ vals' = vec
            /\ IF k # 0
               THEN /\ st' = "building"
                    /\ stack' = [stack EXCEPT ![1] =
                                    <<Frame("build", 1, 0, k - 1)>>]
                    /\ call' = [call EXCEPT ![1] = [kind |-> "build", x |-> 0,
                                                    y |-> 0, ph |-> "run"]]
               ELSE /\ st' = "ready"
                    /\ call' = [call EXCEPT ![1] = [kind |-> "build", x |-> 0,
                                                    y |-> 0, ph |-> "done"]]
                    /\ UNCHANGED stack
            /\ acc' = {}
            /\ UNCHANGED <<nupd, op, res>>

StepUpdatePoint ==
    \E point \in StepIndices, new_val \in StepValues :
        /\ st = "ready" /\ call[1].ph = "done"
        /\ begin_update_point(1, point, new_val)

StepGet ==
    \E left \in StepIndices, right \in StepIndices :
        /\ st = "ready" /\ call[1].ph = "done"
        /\ begin_get(1, left, right)

\* the statements of the call that is running
StepRun ==
    \/ BuildEnter(1)
    \/ BuildRight(1)
    \/ BuildCombine(1)
    \/ UpdateEnter(1)
    \/ UpdateRead(1)
    \/ UpdateWrite(1)
    \/ GetEnter(1)
    \/ GetTail(1)
    \/ GetSecond(1)
    \/ GetCombine(1)

StepNext ==
    \/ StepFromSequence
    \/ StepUpdatePoint
    \/ StepGet
    \/ StepRun

SpecStep == Init /\ [][StepNext]_vars

\* no suspension points: a call that is running runs its next statement
FairStep == SpecStep /\ WF_vars(StepRun)

\* ------------------------------------------------- SpecConc: two callers

ConcMaxN == 4
ConcSizes == 2 .. ConcMaxN

\* a tree made from a sequence, and two update_point calls on two different
\* valid indices about to be entered
ConcInit ==
    \E k \in ConcSizes, f \in StepCombiners :
        \E vec \in [0 .. k - 1 -> StepValues] :
            \E i \in 0 .. k - 1, j \in 0 .. k - 1, vi \in StepValues,
               vj \in StepValues :
                /\ i # j
                /\ st = "ready"
                /\ n = k
                /\ foo = f
                /\ tree = from_vector(vec, k, f)
                /\ ctor = "seq"
                /\ vals = vec
                /\ nupd = FALSE
                /\ op = NoOp
                /\ stack = [p \in Procs |-> <<>>]
                /\ call = [p \in Procs |->
                              [kind |-> "update",
                               x |-> IF p = 1 THEN i ELSE j,
                               y |-> IF p = 1 THEN vi ELSE vj,
                               ph |-> "pending"]]
                /\ res = [p \in Procs |-> Zero]
                /\ acc = {}

ConcUpdatePoint(p) ==
    /\ call[p].ph = "pending"
    /\ begin_update_point(p, call[p].x, call[p].y)

ConcNext ==
    \E p \in Procs :
        \/ ConcUpdatePoint(p)
        \/ UpdateEnter(p)
        \/ UpdateRead(p)
        \/ UpdateWrite(p)

SpecConc == ConcInit /\ [][ConcNext]_vars

\* ------------------------------------------------- what the claims speak of

\* combine folded in index order, left operand first, over s[left .. right]
RECURSIVE Fold(_, _, _, _)
Fold(f, s, left, right) ==
    IF left = right
    THEN s[left]
    ELSE Combine(f, Fold(f, s, left, right - 1), s[right])

\* f is associative on the values the model draws
IsAssociative(f) ==
    \A a \in Values, b \in Values, c \in Values :
        Combine(f, Combine(f, a, b), c) = Combine(f, a, Combine(f, b, c))

\* e is a neutral element of f
IsIdentity(f, e) ==
    \A x \in Values : Combine(f, e, x) = x /\ Combine(f, x, e) = x

\* the nodes of the tree over [l, r] rooted at slot v: root slot 1 covers
\* [0, n-1], the children of v over [l, r], l < r, are 2v over [l, mid] and
\* 2v+1 over [mid+1, r]
RECURSIVE Nodes(_, _, _)
Nodes(v, l, r) ==
    IF l = r
    THEN {<<v, l, r>>}
    ELSE LET mid == (l + r) \div 2
         IN {<<v, l, r>>} \cup Nodes(2 * v, l, mid)
                \cup Nodes(2 * v + 1, mid + 1, r)

TreeNodes(k) == IF k = 0 THEN {} ELSE Nodes(1, 0, k - 1)

\* the internal nodes that break tree[v] = combine(tree[2v], tree[2v+1])
Broken(t, k, f) ==
    {nd \in TreeNodes(k) :
        /\ nd[2] < nd[3]
        /\ t[nd[1]] # Combine(f, t[2 * nd[1]], t[2 * nd[1] + 1])}

NodeInvariant(t, k, f) == Broken(t, k, f) = {}

ValidRange(k, left, right) == left <= right /\ right < k

\* ------------------------------------------------------------------ claims

C2_NodeInvariant ==
    (st = "ready" /\ ctor = "seq" /\ n > 0) => NodeInvariant(tree, n, foo)

C2_Witness ==
    /\ st = "ready" /\ ctor = "seq" /\ n = 3 /\ foo = "sub" /\ nupd
    /\ op.kind = "update" /\ op.a = 1 /\ op.b = 2
    /\ tree[1] # 0 /\ tree[2] # 0

\* C3: after update_point(index, v) with index < n, get(index, index) is v
\* and every valid get whose range leaves index out is what it was.
C3_UpdateFrame ==
    [][(op'.kind = "update" /\ op'.a < n /\ st = "ready") =>
          /\ get_range(tree', n', foo', op'.a, op'.a) = op'.b
          /\ \A left \in Indices, right \in Indices :
                (ValidRange(n, left, right)
                    /\ (right < op'.a \/ left > op'.a)) =>
                    get_range(tree', n', foo', left, right)
                        = get_range(tree, n, foo, left, right)]_vars

\* an update of the middle element that changed the storage
C3_Witness ==
    /\ st = "ready" /\ n = 3 /\ op.kind = "update" /\ op.a = 1 /\ op.b = 2
    /\ foo = "prod"
    /\ get_range(tree, n, foo, 1, 1) = 2
    /\ get_range(tree, n, foo, 0, 0) = 1
    /\ get_range(tree, n, foo, 2, 2) = 2

\* C4 as stated: a rejected get returns a neutral element of the combiner.
C4_RejectedIsIdentity ==
    (st = "ready" /\ op.kind = "get" /\ ~ValidRange(n, op.a, op.b)) =>
        IsIdentity(foo, op.ret)

\* C4 as amended: a rejected get returns T(0), which is a neutral element
\* of the sum combiner.
C4_RejectedIsZero ==
    (st = "ready" /\ op.kind = "get" /\ ~ValidRange(n, op.a, op.b)) =>
        /\ op.ret = Zero
        /\ foo = "sum" => IsIdentity(foo, op.ret)

\* an inverted range on a tree of two under the product: the get returns 0
C4_Witness ==
    /\ st = "ready" /\ op.kind = "get" /\ ~ValidRange(n, op.a, op.b)
    /\ n = 2 /\ foo = "prod" /\ op.a = 1 /\ op.b = 0 /\ tree[1] = 4
    /\ op.ret = 0

\* C5: update_point(index, value) with index >= n changes no slot and not n,
\* so every get answers as before.
C5_UpdatePastEnd ==
    [][(op'.kind = "update" /\ op'.a >= n /\ st = "ready") =>
          /\ tree' = tree
          /\ n' = n
          /\ foo' = foo
          /\ \A left \in Indices, right \in Indices :
                get_range(tree', n', foo', left, right)
                    = get_range(tree, n, foo, left, right)]_vars

C5_Witness ==
    /\ st = "ready" /\ op.kind = "update" /\ op.a >= n /\ op.b = 2
    /\ n = 2 /\ op.a = 2 /\ tree[1] = 1 /\ ~nupd

\* C6: after the constructor from a size alone, n > 0, with an associative
\* combiner, and after any update_point calls, every internal node holds
\* combine of its two children.
C6_SizedNodeInvariant ==
    (st = "ready" /\ ctor = "size" /\ n > 0 /\ IsAssociative(foo)) =>
        NodeInvariant(tree, n, foo)

\* C7: get changes no slot, not n and not the combiner, and the same get
\* again, with nothing in between, returns the same value.
C7_QueryFrame ==
    [][(op'.kind = "get" /\ st = "ready") =>
          /\ tree' = tree
          /\ n' = n
          /\ foo' = foo
          /\ (op.kind = "get" /\ op.a = op'.a /\ op.b = op'.b) =>
                op'.ret = op.ret]_vars

C7_Witness ==
    /\ st = "ready" /\ op.kind = "get" /\ op.a = 0 /\ op.b = 2 /\ n = 3
    /\ op.ret = 6 /\ foo = "sum"

\* ------------------------------------------- the two renderings agree

\* a get run statement by statement returns what the recursive operator
\* gives, and between the single caller's calls the leaves hold the logical
\* values and every internal node combine of its children
StepAgrees ==
    /\ (call[1].kind = "get" /\ call[1].ph = "done") =>
          res[1] = get_range(tree, n, foo, call[1].x, call[1].y)
    /\ (st = "ready" /\ call[1].ph = "done") =>
          /\ NodeInvariant(tree, n, foo)
          /\ \A i \in 0 .. n - 1 : get_range(tree, n, foo, i, i) = vals[i]
          /\ n > 0 => tree = from_vector(vals, n, foo)

\* ----------------------------------------------- claims, statement level

BothDone == \A p \in Procs : call[p].ph = "done"

\* the nodes whose range holds the indices of both running updates
Shared == {nd \in TreeNodes(n) :
              \A p \in Procs : nd[2] <= call[p].x /\ call[p].x <= nd[3]}

\* C8: two update_point calls on different valid indices, interleaved slot
\* access by slot access, can both complete and leave a shared ancestor that
\* is not combine of its children (C8_Witness); whenever they do, the
\* leaves hold the written values, only shared ancestors are broken, and the
\* get over the range of the deepest broken node is not the fold of its
\* leaves.
C8_RacingUpdates ==
    BothDone =>
        /\ \A i \in 0 .. n - 1 : get_range(tree, n, foo, i, i) = vals[i]
        /\ Broken(tree, n, foo) \subseteq Shared
        /\ \A nd \in Broken(tree, n, foo) :
              \E left \in nd[2] .. nd[3], right \in nd[2] .. nd[3] :
                  /\ left <= right
                  /\ get_range(tree, n, foo, left, right)
                         # Fold(foo, vals, left, right)

\* both calls have completed, the root is not combine of its children and
\* the get over everything is not the fold of the leaves
C8_Witness ==
    /\ BothDone
    /\ tree[1] # Combine(foo, tree[2], tree[3])
    /\ get_range(tree, n, foo, 0, n - 1) # Fold(foo, vals, 0, n - 1)

\* C9: every slot a statement of build, update or get reads or writes is
\* one of 1 .. 4n-1, every frame runs on a node of the tree over [0, n-1],
\* and no two nodes of that tree have the same slot.
C9_SlotsInStorage ==
    /\ acc \subseteq 1 .. 4 * n - 1
    /\ acc \subseteq DOMAIN tree
    /\ \A i \in 1 .. Len(stack[1]) :
          <<stack[1][i].v, stack[1][i].l, stack[1][i].r>> \in TreeNodes(n)
    /\ \A nd \in TreeNodes(n), md \in TreeNodes(n) :
          nd[1] = md[1] => nd = md

\* update writes the highest slot of the tree over six elements, a slot
\* past 2n
C9_Witness ==
    /\ n = 6 /\ acc = {13} /\ call[1].kind = "update" /\ call[1].x = 4
    /\ tree[13] = 2 /\ tree[12] = 1

\* every frame is on a non-empty range inside [0, n-1], strictly inside its
\* caller's; update's holds idx, get's meets [left, right]
FramesShrink ==
    \A i \in 1 .. Len(stack[1]) :
        LET f == stack[1][i]
        IN /\ 0 <= f.l /\ f.l <= f.r /\ f.r <= n - 1
           /\ i < Len(stack[1]) =>
                 LET g == stack[1][i + 1]
                 IN /\ g.l <= f.l /\ f.r <= g.r
                    /\ f.r - f.l < g.r - g.l
           /\ f.fn = "update" => (f.l <= call[1].x /\ call[1].x <= f.r)
           /\ f.fn = "get" => (f.l <= call[1].y /\ call[1].x <= f.r)

\* C10: every build, update_point and get call ends: its frames stay on
\* non-empty, strictly shrinking ranges, and the call that runs completes.
C10_CallsEnd ==
    /\ []FramesShrink
    /\ (call[1].ph = "run") ~> (call[1].ph = "done")

\* a get three calls below the root's, on a leaf
C10_Witness ==
    /\ Len(stack[1]) = 4 /\ Top(1).fn = "get" /\ Top(1).l = Top(1).r
    /\ call[1].x = 1 /\ call[1].y = 1 /\ n = 5

====
